---- MODULE Spec2Model ----
(***************************************************************************)
(* Model of @very-coffee/hello (src/src/index.ts): the DEBUG pattern table *)
(* (parseDebugEnvVar), the enablement query (isEnabled), the threshold     *)
(* handed to the logging engine (getMinLogLevel) and the log functions     *)
(* built by helloInnit.                                                    *)
(*                                                                         *)
(* Strings are sequences of atoms.  An atom is one of the characters the   *)
(* parser looks at (",", ":", "-", "*", " ") or a word: a maximal run of   *)
(* other characters ("app", "info", ...).  The string "app:info" is        *)
(* <<"app", ":", "info">>, the empty string is <<>>.                       *)
(***************************************************************************)
EXTENDS Naturals, Sequences, FiniteSets

VARIABLES
    DEBUG,                 \* process.env.DEBUG: <<>> when unset, <<s>> when set to s
    LOG_LEVEL,             \* process.env.LOG_LEVEL: <<>> when unset, <<s>> when set to s
    built,                 \* TRUE once helloInnit has returned a logger matrix
    namespaces,            \* helloInnit's namespaces argument
    levels,                \* helloInnit's levels argument
    enabledNamespacesMap,  \* the table parseDebugEnvVar returned
    minLogLevel,           \* defaultOptions.level, the value getMinLogLevel returned
    baseLogger,            \* the engine logger: its kind and its level
    last                   \* the last operation on a log function and its outcome

vars == <<DEBUG, LOG_LEVEL, built, namespaces, levels, enabledNamespacesMap,
          minLogLevel, baseLogger, last>>

----------------------------------------------------------------------------
(* Strings *)

Str(w) == <<w>>

EmptyStr == <<>>

Star == Str("*")

\* String.prototype.split with a one-character separator
RECURSIVE SplitFrom(_, _, _, _)
SplitFrom(s, sep, i, cur) ==
    IF i > Len(s) THEN <<cur>>
    ELSE IF s[i] = sep THEN <<cur>> \o SplitFrom(s, sep, i + 1, <<>>)
    ELSE SplitFrom(s, sep, i + 1, Append(cur, s[i]))

Split(s, sep) == SplitFrom(s, sep, 1, <<>>)

\* String.prototype.trim
RECURSIVE TrimStart(_)
TrimStart(s) ==
    IF s # <<>> /\ Head(s) = " " THEN TrimStart(Tail(s)) ELSE s

RECURSIVE TrimEnd(_)
TrimEnd(s) ==
    IF s # <<>> /\ s[Len(s)] = " " THEN TrimEnd(SubSeq(s, 1, Len(s) - 1)) ELSE s

Trim(s) == TrimEnd(TrimStart(s))

\* String.prototype.startsWith("-")
StartsWithDash(s) == s # <<>> /\ Head(s) = "-"

\* String.prototype.substring(1)
Substring1(s) == IF s = <<>> THEN <<>> ELSE Tail(s)

\* Array.prototype.join
RECURSIVE Join(_, _)
Join(parts, sep) ==
    IF parts = <<>> THEN <<>>
    ELSE IF Len(parts) = 1 THEN parts[1]
    ELSE parts[1] \o <<sep>> \o Join(Tail(parts), sep)

\* Array.prototype.includes
Includes(seq, x) == \E i \in 1..Len(seq) : seq[i] = x

\* An optional string (string | undefined) is <<>> for undefined and <<s>>
\* for the string s; Truthy is JavaScript's truthiness of such a value.
Undefined == <<>>

Truthy(opt) == opt # Undefined /\ opt[1] # EmptyStr

----------------------------------------------------------------------------
(* createDebugPatterns *)

\* the namespaces.map of one environment: `${namespace}:${env}`
PatternsOf(nss, env) == [i \in 1..Len(nss) |-> nss[i] \o <<":">> \o env]

\* environments.flatMap((env) => namespaces.map(...))
RECURSIVE FlatMap(_, _)
FlatMap(nss, environments) ==
    IF environments = <<>> THEN <<>>
    ELSE PatternsOf(nss, Head(environments)) \o FlatMap(nss, Tail(environments))

\* createDebugPatterns that walks the namespaces first
RECURSIVE createDebugPatterns_NamespaceMajor(_, _)
createDebugPatterns_NamespaceMajor(nss, environments) ==
    IF nss = <<>> THEN <<>>
    ELSE LET first == Join([j \in 1..Len(environments) |->
                               Head(nss) \o <<":">> \o environments[j]], ",")
             rest  == createDebugPatterns_NamespaceMajor(Tail(nss), environments)
         IN  IF first = <<>> \/ rest = <<>> THEN first \o rest
             ELSE first \o <<",">> \o rest

\* createDebugPatterns that writes the level before the namespace
createDebugPatterns_LevelFirst(nss, environments) ==
    Join(FlatMap(environments, nss), ",")

createDebugPatterns(nss, environments) == Join(FlatMap(nss, environments), ",")

----------------------------------------------------------------------------
(* parseDebugEnvVar *)

\* const [ns, level] = pattern.split(":")
PatternNs(pattern) == Split(pattern, ":")[1]

PatternLevel(pattern) ==
    LET parts == Split(pattern, ":")
    IN  IF Len(parts) >= 2 THEN <<parts[2]>> ELSE Undefined

\* EnableLevel that enables the whole namespace whatever the level token is
EnableLevel_IgnoresLevel(set, level, lvls) == {Star}

\* EnableLevel without the test that the level is declared
EnableLevel_NoLevelCheck(set, level, lvls) ==
    IF Truthy(level) THEN set \cup {level[1]} ELSE {Star}

\* result[namespace] after the inclusion has been applied to one namespace
EnableLevel(set, level, lvls) ==
    IF Truthy(level)
    THEN IF level[1] = Star \/ Includes(lvls, level[1])
         THEN set \cup {level[1]}
         ELSE set
    ELSE {Star}

\* ApplyInclusion that gives an undeclared namespace an entry of its own
ApplyInclusion_AddsUnknown(result, pattern, nss, lvls) ==
    LET ns    == PatternNs(pattern)
        level == PatternLevel(pattern)
    IN  IF ns = EmptyStr THEN result
        ELSE IF ns = Star
        THEN [n \in DOMAIN result |-> EnableLevel(result[n], level, lvls)]
        ELSE [n \in DOMAIN result \cup {ns} |->
                 IF n = ns
                 THEN EnableLevel(IF n \in DOMAIN result THEN result[n] ELSE {},
                                  level, lvls)
                 ELSE result[n]]

\* the body of inclusions.forEach
ApplyInclusion(result, pattern, nss, lvls) ==
    LET ns    == PatternNs(pattern)
        level == PatternLevel(pattern)
    IN  IF ns = EmptyStr THEN result
        ELSE IF ns = Star
        THEN [n \in DOMAIN result |-> EnableLevel(result[n], level, lvls)]
        ELSE IF Includes(nss, ns)
        THEN [result EXCEPT ![ns] = EnableLevel(result[ns], level, lvls)]
        ELSE result

\* an exclusion that clears the entry of its namespace without asking whether
\* the namespace is declared
ApplyExclusion_Undeclared(result, pattern, nss) ==
    LET ns == Split(Substring1(pattern), ":")[1]
    IN  IF ns = EmptyStr THEN result
        ELSE [n \in DOMAIN result \cup {ns} |-> IF n = ns THEN {} ELSE result[n]]

\* an exclusion that honours a level qualifier: -ns:level removes that level
\* only
ApplyExclusion_OneLevel(result, pattern, nss) ==
    LET parts == Split(Substring1(pattern), ":")
        ns    == parts[1]
    IN  IF ns = EmptyStr THEN result
        ELSE IF Includes(nss, ns)
        THEN [result EXCEPT ![ns] = IF Len(parts) >= 2 THEN @ \ {parts[2]}
                                    ELSE {}]
        ELSE result

\* the body of exclusions.forEach
ApplyExclusion(result, pattern, nss) ==
    LET ns == Split(Substring1(pattern), ":")[1]
    IN  IF ns = EmptyStr THEN result
        ELSE IF Includes(nss, ns)
        THEN [result EXCEPT ![ns] = {}]
        ELSE result

RECURSIVE Inclusions(_, _, _, _)
Inclusions(result, patterns, nss, lvls) ==
    IF patterns = <<>> THEN result
    ELSE Inclusions(ApplyInclusion(result, Head(patterns), nss, lvls),
                    Tail(patterns), nss, lvls)

RECURSIVE Exclusions(_, _, _)
Exclusions(result, patterns, nss) ==
    IF patterns = <<>> THEN result
    ELSE Exclusions(ApplyExclusion(result, Head(patterns), nss),
                    Tail(patterns), nss)

NotEmpty(s) == s # EmptyStr

IsInclusion(p) == ~StartsWithDash(p)

\* debug.split(",").map((p) => p.trim()).filter(Boolean)
Patterns(rawSpec) ==
    LET raw == Split(rawSpec, ",")
    IN  SelectSeq([i \in 1..Len(raw) |-> Trim(raw[i])], NotEmpty)

Declared(nss) == {nss[i] : i \in 1..Len(nss)}

\* parseDebugEnvVar with one pass over the patterns in their written order
RECURSIVE InOrder(_, _, _, _)
InOrder(result, patterns, nss, lvls) ==
    IF patterns = <<>> THEN result
    ELSE InOrder(IF StartsWithDash(Head(patterns))
                 THEN ApplyExclusion(result, Head(patterns), nss)
                 ELSE ApplyInclusion(result, Head(patterns), nss, lvls),
                 Tail(patterns), nss, lvls)

parseDebugEnvVar_SinglePass(envDebug, nss, lvls) ==
    LET rawSpec == IF Truthy(envDebug) THEN envDebug[1] ELSE EmptyStr
    IN  IF rawSpec = Star
        THEN [n \in Declared(nss) |-> {Star}]
        ELSE InOrder([n \in Declared(nss) |-> {}], Patterns(rawSpec), nss, lvls)

\* parseDebugEnvVar reading process.env.DEBUG || "*"
parseDebugEnvVar_DefaultStar(envDebug, nss, lvls) ==
    LET rawSpec  == IF Truthy(envDebug) THEN envDebug[1] ELSE Star
        patterns == Patterns(rawSpec)
    IN  IF rawSpec = Star
        THEN [n \in Declared(nss) |-> {Star}]
        ELSE Exclusions(
                 Inclusions([n \in Declared(nss) |-> {}],
                            SelectSeq(patterns, IsInclusion), nss, lvls),
                 SelectSeq(patterns, StartsWithDash), nss)

\* parseDebugEnvVar that processes the exclusions before the inclusions
parseDebugEnvVar_ExclusionsFirst(envDebug, nss, lvls) ==
    LET rawSpec  == IF Truthy(envDebug) THEN envDebug[1] ELSE EmptyStr
        patterns == Patterns(rawSpec)
    IN  IF rawSpec = Star
        THEN [n \in Declared(nss) |-> {Star}]
        ELSE Inclusions(
                 Exclusions([n \in Declared(nss) |-> {}],
                            SelectSeq(patterns, StartsWithDash), nss),
                 SelectSeq(patterns, IsInclusion), nss, lvls)

parseDebugEnvVar(envDebug, nss, lvls) ==
    LET rawSpec  == IF Truthy(envDebug) THEN envDebug[1] ELSE EmptyStr
        init     == [n \in Declared(nss) |-> {}]
        patterns == Patterns(rawSpec)
    IN  IF rawSpec = Star
        THEN [n \in Declared(nss) |-> {Star}]
        ELSE Exclusions(
                 Inclusions(init, SelectSeq(patterns, IsInclusion), nss, lvls),
                 SelectSeq(patterns, StartsWithDash), nss)

----------------------------------------------------------------------------
(* isEnabled *)

\* isEnabled without the test for the wildcard marker
isEnabled_NoWildcard(enabledMap, namespace, level) ==
    IF namespace \notin DOMAIN enabledMap THEN FALSE
    ELSE level \in enabledMap[namespace]

\* isEnabled that takes a namespace without an entry for an enabled one
isEnabled_AbsentIsEnabled(enabledMap, namespace, level) ==
    IF namespace \notin DOMAIN enabledMap THEN TRUE
    ELSE LET enabledLevels == enabledMap[namespace]
         IN  IF Star \in enabledLevels THEN TRUE
             ELSE IF Cardinality(enabledLevels) = 0 THEN FALSE
             ELSE level \in enabledLevels

isEnabled(enabledMap, namespace, level) ==
    IF namespace \notin DOMAIN enabledMap THEN FALSE
    ELSE LET enabledLevels == enabledMap[namespace]
         IN  IF Star \in enabledLevels THEN TRUE
             ELSE IF Cardinality(enabledLevels) = 0 THEN FALSE
             ELSE level \in enabledLevels

----------------------------------------------------------------------------
(* levelToPinoLevel and getMinLogLevel *)

fatal == Str("fatal")
error == Str("error")
warn  == Str("warn")
info  == Str("info")
debug == Str("debug")
trace == Str("trace")

\* const validLevels = ["fatal", "error", "warn", "info", "debug", "trace"]
validLevels == <<fatal, error, warn, info, debug, trace>>

\* the keys of levelToPinoLevel; every key maps to itself
levelToPinoLevel == {fatal, error, warn, info, debug, trace}

\* Array.prototype.indexOf, counted from 1, 0 when absent
IndexOf(seq, x) ==
    IF Includes(seq, x) THEN CHOOSE i \in 1..Len(seq) : seq[i] = x ELSE 0

\* CheckLevel with the comparison turned round
CheckLevel_Reversed(acc, level) ==
    IF level # Star /\ level \in levelToPinoLevel
    THEN IF IndexOf(validLevels, level) < IndexOf(validLevels, acc.minLevel)
         THEN [minLevel |-> level, found |-> TRUE]
         ELSE acc
    ELSE acc

\* the body of "for (const level of enabledLevels)": the new (minLevel, found)
CheckLevel(acc, level) ==
    IF level # Star /\ level \in levelToPinoLevel
    THEN IF IndexOf(validLevels, level) > IndexOf(validLevels, acc.minLevel)
         THEN [minLevel |-> level, found |-> TRUE]
         ELSE acc
    ELSE acc

RECURSIVE CheckLevels(_, _)
CheckLevels(acc, enabledLevels) ==
    IF enabledLevels = {} THEN acc
    ELSE LET level == CHOOSE l \in enabledLevels : TRUE
         IN  CheckLevels(CheckLevel(acc, level), enabledLevels \ {level})

\* MostVerboseEnabled without the early return on the wildcard marker
RECURSIVE MostVerboseEnabled_NoWildcard(_, _, _)
MostVerboseEnabled_NoWildcard(acc, nss, enabledMap) ==
    IF nss = <<>> THEN (IF acc.found THEN acc.minLevel ELSE info)
    ELSE MostVerboseEnabled_NoWildcard(CheckLevels(acc, enabledMap[Head(nss)]),
                                       Tail(nss), enabledMap)

\* the scan of the table with "error" as the result when nothing was found
RECURSIVE MostVerboseEnabled_FallbackError(_, _, _)
MostVerboseEnabled_FallbackError(acc, nss, enabledMap) ==
    IF nss = <<>> THEN (IF acc.found THEN acc.minLevel ELSE error)
    ELSE IF Star \in enabledMap[Head(nss)] THEN trace
    ELSE MostVerboseEnabled_FallbackError(CheckLevels(acc, enabledMap[Head(nss)]),
                                          Tail(nss), enabledMap)

\* "for (const namespace of namespaces)" and the final return
RECURSIVE MostVerboseEnabled(_, _, _)
MostVerboseEnabled(acc, nss, enabledMap) ==
    IF nss = <<>> THEN (IF acc.found THEN acc.minLevel ELSE info)
    ELSE IF Star \in enabledMap[Head(nss)] THEN trace
    ELSE MostVerboseEnabled(CheckLevels(acc, enabledMap[Head(nss)]),
                            Tail(nss), enabledMap)

\* getMinLogLevel that never looks at the pattern table
getMinLogLevel_DefaultOnly(envLogLevel, nss, enabledMap) ==
    IF Truthy(envLogLevel) /\ envLogLevel[1] \in levelToPinoLevel
    THEN envLogLevel[1]
    ELSE info

\* getMinLogLevel that merges LOG_LEVEL with the table: the more verbose wins
getMinLogLevel_Merged(envLogLevel, nss, enabledMap) ==
    LET computed == MostVerboseEnabled([minLevel |-> info, found |-> FALSE],
                                       nss, enabledMap)
    IN  IF Truthy(envLogLevel) /\ envLogLevel[1] \in levelToPinoLevel
           /\ IndexOf(validLevels, envLogLevel[1]) >= IndexOf(validLevels, computed)
        THEN envLogLevel[1]
        ELSE computed

getMinLogLevel(envLogLevel, nss, enabledMap) ==
    IF Truthy(envLogLevel) /\ envLogLevel[1] \in levelToPinoLevel
    THEN envLogLevel[1]
    ELSE MostVerboseEnabled([minLevel |-> info, found |-> FALSE], nss, enabledMap)

\* a mapping that sends every level to info
PinoLevel_AlwaysInfo(level) == info

\* const pinoLevel = levelToPinoLevel[level] || "info"
PinoLevel(level) == IF level \in levelToPinoLevel THEN level ELSE info

----------------------------------------------------------------------------
(* The engine logger *)

\* options.logger of the tests: isLevelEnabled: () => false, () => true,
\* (level) => level === "error" || level === "fatal"; "pino" is pino(finalOptions)
MockKinds == {"denyAll", "allowAll", "errorAndFatal"}

\* envLogger.isLevelEnabled(pinoLevel); child loggers keep the level of baseLogger
isLevelEnabled(logger, pinoLevel) ==
    CASE logger.kind = "denyAll"       -> FALSE
      [] logger.kind = "allowAll"      -> TRUE
      [] logger.kind = "errorAndFatal" -> pinoLevel = error \/ pinoLevel = fatal
      [] OTHER -> IndexOf(validLevels, pinoLevel) <= IndexOf(validLevels, logger.level)

\* finalOptions = {...defaultOptions, ...pinoOptions}: options.level wins when given
FinalLevel(defaultLevel, options) ==
    IF options.level # Undefined THEN options.level[1] ELSE defaultLevel

\* const baseLogger = options.logger || pino(finalOptions)
BaseLogger(defaultLevel, options) ==
    IF options.logger \in MockKinds
    THEN [kind  |-> options.logger,
          level |-> IF options.logger = "errorAndFatal" THEN error ELSE trace]
    ELSE [kind |-> "pino", level |-> FinalLevel(defaultLevel, options)]

----------------------------------------------------------------------------
(* The log functions *)

\* logFn that needs both the pattern table and the engine gate
ShouldLog_And(enabledMap, logger, namespace, level) ==
    isEnabled(enabledMap, namespace, level)
        /\ isLevelEnabled(logger, PinoLevel(level))

\* the condition of the early return of logFn, negated
ShouldLog(enabledMap, logger, namespace, level) ==
    ~(~isEnabled(enabledMap, namespace, level)
      /\ ~isLevelEnabled(logger, PinoLevel(level)))

\* an enabled getter that reports the pattern table only
EnabledGetter_TableOnly(enabledMap, logger, namespace, level) ==
    isEnabled(enabledMap, namespace, level)

\* the getter of logFn.enabled
EnabledGetter(enabledMap, logger, namespace, level) ==
    isEnabled(enabledMap, namespace, level)
        \/ isLevelEnabled(logger, PinoLevel(level))

\* the shapes of a call: a string with arguments that all fill placeholders
\* or with some left over, an object alone, an object with a message with or
\* without arguments left over
CallForms == {"string", "stringArgs", "object", "objectMsg", "objectMsgArgs"}

\* the envLogger[pinoLevel](...) calls of logFn's body after the early return
Emit(namespace, level, form) ==
    LET call == [namespace |-> namespace, environment |-> level,
                 method |-> PinoLevel(level)]
    IN  CASE form = "string"        -> <<call>>
          [] form = "stringArgs"    -> <<call>>
          [] form = "object"        -> <<call>>
          [] form = "objectMsg"     -> <<call>>
          [] form = "objectMsgArgs" -> <<call>>


----------------------------------------------------------------------------
(* Inputs *)

app     == Str("app")
api     == Str("api")
db      == Str("db")
ghost   == Str("ghost")     \* never declared as a namespace
verbose == Str("verbose")   \* a caller level with no engine severity
bogus   == Str("bogus")     \* never declared as a level

Colon(ns, level) == ns \o <<":">> \o level

Minus(pattern) == <<"-">> \o pattern

\* the (namespaces, levels) arguments of helloInnit
Declarations ==
    { [namespaces |-> <<app, api>>,     levels |-> <<info, error>>],
      [namespaces |-> <<app, api, db>>, levels |-> <<info, error, debug>>],
      [namespaces |-> <<api, db, app>>, levels |-> <<debug, verbose, error, info>>],
      [namespaces |-> <<>>,         levels |-> <<info, error>>],
      [namespaces |-> <<app, api>>, levels |-> <<>>] }

\* the comma-separated units a DEBUG value is made of
PatternPool ==
    { Star, Colon(Star, error), Colon(Star, debug), Colon(Star, bogus),
      Colon(Star, EmptyStr),
      app, Colon(app, info), Colon(app, Star), Colon(app, EmptyStr),
      Colon(app, bogus), Colon(Colon(app, info), Str("x")),
      <<" ">> \o Colon(api, error) \o <<" ">>, Colon(api, Star),
      Colon(db, verbose), Colon(ghost, info),
      Minus(app), Minus(api), Minus(Colon(app, info)), Minus(ghost),
      Minus(EmptyStr), Colon(EmptyStr, info), Colon(EmptyStr, EmptyStr),
      EmptyStr, <<" ">> }

\* the largest number of units in a DEBUG value
MaxPatterns == 2

PatternLists == UNION {[1..k -> PatternPool] : k \in 0..MaxPatterns}

\* the values of process.env.DEBUG the table is built from
DebugSpecs == {Undefined} \cup {<<Join(ps, ",")>> : ps \in PatternLists}

\* the DEBUG values of the README and of the tests
DocumentedSpecs ==
    { Undefined,
      <<EmptyStr>>,
      <<Star>>,
      <<Colon(app, Star)>>,
      <<Join(<<Colon(app, info), Colon(api, Star)>>, ",")>>,
      <<Join(<<Colon(app, info), Colon(db, error)>>, ",")>>,
      <<Join(<<Star, Minus(api)>>, ",")>>,
      <<Join(<<Star, Minus(db)>>, ",")>>,
      <<Colon(Star, error)>> }

\* the values of process.env.LOG_LEVEL
LogLevelValues == {Undefined, <<error>>, <<verbose>>}

\* the values the program around the logger assigns to DEBUG and LOG_LEVEL
\* after the logger matrix has been built
LaterDebugValues == {Undefined, <<Star>>}

LaterLogLevelValues == {Undefined, <<debug>>}

\* the options argument of helloInnit: level and logger
NoOptions == [level |-> Undefined, logger |-> "none"]

\* the options of the tests: {level: "debug"}, {level: "trace", logger: mock}
\* and {logger: mock}
OptionValues ==
    { NoOptions,
      [level |-> <<debug>>, logger |-> "none"],
      [level |-> <<trace>>, logger |-> "denyAll"],
      [level |-> <<trace>>, logger |-> "allowAll"],
      [level |-> Undefined, logger |-> "errorAndFatal"] }

\* the longest list given to createDebugPatterns
MaxListLen == 2

ListsOf(words) == UNION {[1..k -> words] : k \in 0..MaxListLen}

Nothing == [op |-> "none", namespace |-> EmptyStr, level |-> EmptyStr,
            emitted |-> <<>>, value |-> FALSE]

----------------------------------------------------------------------------
(* Operations *)

\* helloInnit(namespaces, levels, options): one logger matrix is followed from
\* its construction on
helloInnit(nss, lvls, options) ==
    LET table == parseDebugEnvVar(DEBUG, nss, lvls)
        level == getMinLogLevel(LOG_LEVEL, nss, table)
    IN  /\ ~built
        /\ namespaces' = nss
        /\ levels' = lvls
        /\ enabledNamespacesMap' = table
        /\ minLogLevel' = level
        /\ baseLogger' = BaseLogger(level, options)
        /\ built' = TRUE
        /\ last' = Nothing
        /\ UNCHANGED <<DEBUG, LOG_LEVEL>>

\* hello[namespace][level](messageOrObj, ...args)
logFn(namespace, level, form) ==
    /\ built
    /\ Includes(namespaces, namespace)
    /\ Includes(levels, level)
    /\ last' = [op |-> "call", namespace |-> namespace, level |-> level,
                emitted |-> IF ShouldLog(enabledNamespacesMap, baseLogger,
                                         namespace, level)
                            THEN Emit(namespace, level, form)
                            ELSE <<>>,
                value |-> FALSE]
    /\ UNCHANGED <<DEBUG, LOG_LEVEL, built, namespaces, levels,
                   enabledNamespacesMap, minLogLevel, baseLogger>>

\* reading hello[namespace][level].enabled
GetEnabled(namespace, level) ==
    /\ built
    /\ Includes(namespaces, namespace)
    /\ Includes(levels, level)
    /\ last' = [op |-> "get", namespace |-> namespace, level |-> level,
                emitted |-> <<>>,
                value |-> EnabledGetter(enabledNamespacesMap, baseLogger,
                                        namespace, level)]
    /\ UNCHANGED <<DEBUG, LOG_LEVEL, built, namespaces, levels,
                   enabledNamespacesMap, minLogLevel, baseLogger>>

\* a setter that stores the assignment in the pattern table
SetEnabled_Stores(namespace, level, value) ==
    /\ built
    /\ Includes(namespaces, namespace)
    /\ Includes(levels, level)
    /\ enabledNamespacesMap' =
           [enabledNamespacesMap EXCEPT
               ![namespace] = IF value THEN @ \cup {level} ELSE {}]
    /\ last' = [op |-> "set", namespace |-> namespace, level |-> level,
                emitted |-> <<>>, value |-> FALSE]
    /\ UNCHANGED <<DEBUG, LOG_LEVEL, built, namespaces, levels, minLogLevel,
                   baseLogger>>

\* hello[namespace][level].enabled = value
SetEnabled(namespace, level, value) ==
    /\ built
    /\ Includes(namespaces, namespace)
    /\ Includes(levels, level)
    /\ last' = [op |-> "set", namespace |-> namespace, level |-> level,
                emitted |-> <<>>, value |-> FALSE]
    /\ UNCHANGED <<DEBUG, LOG_LEVEL, built, namespaces, levels,
                   enabledNamespacesMap, minLogLevel, baseLogger>>

\* an assignment to DEBUG that a logger matrix reading the variable on every
\* look-up would see
SetDebug_Live(value) ==
    /\ built
    /\ DEBUG' = value
    /\ enabledNamespacesMap' = parseDebugEnvVar(value, namespaces, levels)
    /\ UNCHANGED <<LOG_LEVEL, built, namespaces, levels, minLogLevel,
                   baseLogger, last>>

\* process.env.DEBUG = value, by the program around the logger
SetDebug(value) ==
    /\ built
    /\ DEBUG' = value
    /\ UNCHANGED <<LOG_LEVEL, built, namespaces, levels, enabledNamespacesMap,
                   minLogLevel, baseLogger, last>>

\* process.env.LOG_LEVEL = value
SetLogLevel(value) ==
    /\ built
    /\ LOG_LEVEL' = value
    /\ UNCHANGED <<DEBUG, built, namespaces, levels, enabledNamespacesMap,
                   minLogLevel, baseLogger, last>>

\* createDebugPatterns(namespaces, environments), a pure function: the call
\* takes the arguments chosen for it and keeps them with its result
CreateDebugPatterns ==
    /\ last.op = "arguments"
    /\ last' = [op |-> "createDebugPatterns", namespaces |-> last.namespaces,
                environments |-> last.environments,
                result |-> createDebugPatterns(last.namespaces,
                                               last.environments)]
    /\ UNCHANGED <<DEBUG, LOG_LEVEL, built, namespaces, levels,
                   enabledNamespacesMap, minLogLevel, baseLogger>>

\* process.env.DEBUG = patterns, with the result of createDebugPatterns,
\* before the logger matrix is built
ExportPatterns ==
    /\ ~built
    /\ last.op = "createDebugPatterns"
    /\ DEBUG' = <<last.result>>
    /\ UNCHANGED <<LOG_LEVEL, built, namespaces, levels, enabledNamespacesMap,
                   minLogLevel, baseLogger, last>>

\* helloInnit(namespaces, levels) with the lists the patterns in DEBUG were
\* created from
BuildFromPatterns ==
    /\ last.op = "createDebugPatterns"
    /\ DEBUG = <<last.result>>
    /\ helloInnit(last.namespaces, last.environments, NoOptions)

\* before helloInnit is called there is no logger matrix
NotBuilt ==
    /\ built = FALSE
    /\ namespaces = <<>>
    /\ levels = <<>>
    /\ enabledNamespacesMap = <<>>
    /\ minLogLevel = info
    /\ baseLogger = [kind |-> "pino", level |-> info]
    /\ last = Nothing

AllNames == {app, api, db}

AllLevels == {info, error, debug, verbose}

----------------------------------------------------------------------------
(* The program: the environment, the factory and the log functions *)

Init ==
    /\ DEBUG \in DocumentedSpecs
    /\ LOG_LEVEL \in LogLevelValues
    /\ NotBuilt

Next ==
    \/ \E d \in Declarations, o \in OptionValues :
           helloInnit(d.namespaces, d.levels, o)
    \/ \E n \in AllNames, l \in AllLevels, f \in CallForms : logFn(n, l, f)
    \/ \E n \in AllNames, l \in AllLevels : GetEnabled(n, l)
    \/ \E n \in AllNames, l \in AllLevels, v \in BOOLEAN : SetEnabled(n, l, v)
    \/ \E v \in LaterDebugValues : SetDebug(v)
    \/ \E v \in LaterLogLevelValues : SetLogLevel(v)

Spec == Init /\ [][Next]_vars

(* The table builder and the threshold alone, over every DEBUG value of up *)
(* to MaxPatterns units                                                     *)

InitTable ==
    /\ DEBUG \in DebugSpecs
    /\ LOG_LEVEL \in {Undefined, <<error>>}
    /\ NotBuilt

NextTable ==
    \E d \in Declarations : helloInnit(d.namespaces, d.levels, NoOptions)

SpecTable == InitTable /\ [][NextTable]_vars

(* The table builder alone: parseDebugEnvVar does not read LOG_LEVEL *)

InitParse ==
    /\ DEBUG \in DebugSpecs
    /\ LOG_LEVEL = Undefined
    /\ NotBuilt

SpecParse == InitParse /\ [][NextTable]_vars

(* createDebugPatterns over every pair of lists of up to MaxListLen words, *)
(* and the logger matrix built from its result                            *)

InitPatterns ==
    /\ DEBUG = Undefined
    /\ LOG_LEVEL = Undefined
    /\ built = FALSE
    /\ namespaces = <<>>
    /\ levels = <<>>
    /\ enabledNamespacesMap = <<>>
    /\ minLogLevel = info
    /\ baseLogger = [kind |-> "pino", level |-> info]
    /\ last \in [op : {"arguments"}, namespaces : ListsOf(AllNames),
                 environments : ListsOf(AllLevels)]

NextPatterns ==
    \/ CreateDebugPatterns
    \/ ExportPatterns
    \/ BuildFromPatterns

SpecPatterns == InitPatterns /\ [][NextPatterns]_vars

----------------------------------------------------------------------------
(* Reading a DEBUG value the way its documentation describes it *)

\* the text of DEBUG when the table was built
RawSpec == IF DEBUG = Undefined THEN EmptyStr ELSE DEBUG[1]

\* its comma-separated units, untrimmed
Units == Split(RawSpec, ",")

UnitAt(i) == Trim(Units[i])

RemoveAt(seq, i) == SubSeq(seq, 1, i - 1) \o SubSeq(seq, i + 1, Len(seq))

InsertAt(seq, k, x) == SubSeq(seq, 1, k - 1) \o <<x>> \o SubSeq(seq, k, Len(seq))

\* the table the same declaration gives for another list of units
TableOf(units) == parseDebugEnvVar(<<Join(units, ",")>>, namespaces, levels)

DeclaredNamespaces == {namespaces[i] : i \in 1..Len(namespaces)}

DeclaredLevels == {levels[i] : i \in 1..Len(levels)}

\* the unit is an inclusion that covers namespace n
Covers(unit, n) ==
    \/ unit \in {n, Star, Colon(n, Star)}
    \/ \E l \in DeclaredLevels : unit \in {Colon(n, l), Colon(Star, l)}

\* the pattern table alone decides nothing on the threshold when LOG_LEVEL is
\* unset or is no engine severity
EngineSeverities == {fatal, error, warn, info, debug, trace}

NoOverride == LOG_LEVEL = Undefined \/ LOG_LEVEL[1] \notin EngineSeverities

----------------------------------------------------------------------------
(* Claims *)

\* C1: when DEBUG holds an inclusion covering a declared namespace n and the
\* exclusion -n, the table maps n to the empty set and isEnabled(n, l) is
\* false for every level, wherever -n stands in the list: moving -n to any
\* other position gives the same table, and every other namespace has what
\* the spec without -n gives it.
C1_ExclusionPrecedence ==
    built =>
        \A n \in DeclaredNamespaces :
            \A i \in 1..Len(Units) :
                (UnitAt(i) = Minus(n) /\ \E j \in 1..Len(Units) : Covers(UnitAt(j), n))
                => /\ enabledNamespacesMap[n] = {}
                   /\ \A l \in DeclaredLevels :
                          ~isEnabled(enabledNamespacesMap, n, l)
                   /\ \A k \in 1..Len(Units) :
                          TableOf(InsertAt(RemoveAt(Units, i), k, Units[i]))
                              = enabledNamespacesMap
                   /\ \A m \in DeclaredNamespaces \ {n} :
                          enabledNamespacesMap[m] = TableOf(RemoveAt(Units, i))[m]

\* "-api,*" over a declaration with app and api: api is cleared although its
\* exclusion comes first, app keeps the wildcard
C1_Witness ==
    /\ built
    /\ {app, api} \subseteq DeclaredNamespaces
    /\ RawSpec = Join(<<Minus(api), Star>>, ",")
    /\ enabledNamespacesMap[api] = {}
    /\ enabledNamespacesMap[app] = {Star}

\* C4: DEBUG exactly "*" maps every declared namespace to the wildcard
\* singleton and isEnabled is true for every declared namespace and level.
C4_StarEnablesAll ==
    (built /\ DEBUG = <<Star>>) =>
        \A n \in DeclaredNamespaces :
            /\ enabledNamespacesMap[n] = {Star}
            /\ \A l \in DeclaredLevels : isEnabled(enabledNamespacesMap, n, l)

C4_Witness ==
    /\ built
    /\ DEBUG = <<Star>>
    /\ Len(namespaces) = 3
    /\ isEnabled(enabledNamespacesMap, db, verbose)

\* C5: DEBUG empty or unset maps every declared namespace to the empty set
\* and isEnabled is false for every namespace and level.
C5_EmptyEnablesNothing ==
    (built /\ DEBUG \in {Undefined, <<EmptyStr>>}) =>
        /\ DOMAIN enabledNamespacesMap = DeclaredNamespaces
        /\ \A n \in DeclaredNamespaces \cup {ghost} :
               /\ n \in DeclaredNamespaces => enabledNamespacesMap[n] = {}
               /\ \A l \in DeclaredLevels \cup {Star, bogus} :
                      ~isEnabled(enabledNamespacesMap, n, l)

C5_Witness ==
    /\ built
    /\ DEBUG = Undefined
    /\ Len(namespaces) = 3
    /\ ~isEnabled(enabledNamespacesMap, app, info)


C3_DebugAloneSelects ==
    ( /\ last.op = "call"
      /\ minLogLevel = getMinLogLevel(Undefined, namespaces, enabledNamespacesMap)
      /\ baseLogger = [kind |-> "pino", level |-> minLogLevel]
      /\ \E n \in DeclaredNamespaces : enabledNamespacesMap[n] # {}
      /\ enabledNamespacesMap[last.namespace] = {} )
    => last.emitted = <<>>

\* C6: <namespace>:<level> with both parts declared enables exactly that
\* pair and <namespace>:* every level of that namespace only; for
\* "app:info,api:*" isEnabled is true for (app, info) and for every level of
\* api, and false for every other pair.
C6_PairAndNamespaceWildcard ==
    built =>
        /\ RawSpec = Join(<<Colon(app, info), Colon(api, Star)>>, ",")
           => \A n \in DeclaredNamespaces, l \in DeclaredLevels :
                  isEnabled(enabledNamespacesMap, n, l)
                      <=> ((n = app /\ l = info) \/ n = api)
        /\ \A n \in DeclaredNamespaces, l \in DeclaredLevels :
               Trim(RawSpec) = Colon(n, l)
               => \A m \in DeclaredNamespaces, k \in DeclaredLevels :
                      isEnabled(enabledNamespacesMap, m, k) <=> (m = n /\ k = l)
        /\ \A n \in DeclaredNamespaces :
               Trim(RawSpec) = Colon(n, Star)
               => \A m \in DeclaredNamespaces, k \in DeclaredLevels :
                      isEnabled(enabledNamespacesMap, m, k) <=> m = n

C6_Witness ==
    /\ built
    /\ RawSpec = Join(<<Colon(app, info), Colon(api, Star)>>, ",")
    /\ namespaces = <<app, api, db>>
    /\ isEnabled(enabledNamespacesMap, app, info)
    /\ ~isEnabled(enabledNamespacesMap, app, error)
    /\ isEnabled(enabledNamespacesMap, api, debug)
    /\ ~isEnabled(enabledNamespacesMap, db, info)

\* the unit is *:<level> with one level token that is not empty
StarLevel(unit, level) == level # EmptyStr /\ Split(unit, ":") = <<Star, level>>

\* the namespace an exclusion unit names
ExcludedBy(unit) ==
    IF StartsWithDash(unit) THEN Split(Tail(unit), ":")[1] ELSE EmptyStr

Excluded(n) == \E i \in 1..Len(Units) : UnitAt(i) # EmptyStr /\ ExcludedBy(UnitAt(i)) = n

\* C7: *:<level> with a declared level enables that level for every declared
\* namespace and nothing else; with a level that is not declared (and not *)
\* the pattern is ignored: the table is the one built without it.
C7_StarWithLevel ==
    built =>
        /\ \A l \in DeclaredLevels :
               StarLevel(Trim(RawSpec), l)
               => \A n \in DeclaredNamespaces : enabledNamespacesMap[n] = {l}
        /\ \A i \in 1..Len(Units) :
               /\ \A l \in DeclaredLevels :
                      StarLevel(UnitAt(i), l)
                      => \A n \in DeclaredNamespaces :
                             \/ Excluded(n)
                             \/ isEnabled(enabledNamespacesMap, n, l)
               /\ LET parts == Split(UnitAt(i), ":")
                  IN  ( /\ Len(parts) = 2
                        /\ parts[1] = Star
                        /\ parts[2] \notin DeclaredLevels \cup {Star, EmptyStr} )
                      => enabledNamespacesMap = TableOf(RemoveAt(Units, i))

\* "*:error" alone gives every namespace exactly {error}
C7_Witness ==
    /\ built
    /\ RawSpec = Colon(Star, error)
    /\ Len(namespaces) = 3
    /\ \A n \in DeclaredNamespaces : enabledNamespacesMap[n] = {error}

\* the namespace token of a unit, as inclusion or as exclusion
NamespaceToken(unit) ==
    IF StartsWithDash(unit) THEN Split(Tail(unit), ":")[1] ELSE Split(unit, ":")[1]

\* C8: a pattern whose namespace token is no declared namespace and is not *
\* is a no-op as inclusion and as exclusion: the table equals the one built
\* from the spec without that pattern, and "ghost:info" alone leaves every
\* declared namespace at the empty set.
C8_UnknownNamespaceNoOp ==
    built =>
        /\ \A i \in 1..Len(Units) :
               NamespaceToken(UnitAt(i)) \notin DeclaredNamespaces \cup {Star}
               => enabledNamespacesMap = TableOf(RemoveAt(Units, i))
        /\ RawSpec = Colon(ghost, info)
           => enabledNamespacesMap = [n \in DeclaredNamespaces |-> {}]

\* "app:info,ghost:info": the undeclared namespace adds nothing to the table
C8_Witness ==
    /\ built
    /\ RawSpec = Join(<<Colon(app, info), Colon(ghost, info)>>, ",")
    /\ enabledNamespacesMap = [n \in DeclaredNamespaces |->
                                   IF n = app THEN {info} ELSE {}]

\* every order in which the declared namespaces can be scanned
Orders(seq) ==
    { [i \in 1..Len(seq) |-> seq[p[i]]] :
        p \in {q \in [1..Len(seq) -> 1..Len(seq)] :
                 \A i, j \in 1..Len(seq) : q[i] = q[j] => i = j} }

\* C9: the minimum-severity computation returns "trace" whenever some
\* declared namespace carries the wildcard marker, whatever the other sets
\* hold and in whatever order the namespaces are scanned.
C9_WildcardGivesTrace ==
    (built /\ NoOverride
           /\ \E n \in DeclaredNamespaces : Star \in enabledNamespacesMap[n])
    => /\ minLogLevel = trace
       /\ \A order \in Orders(namespaces) :
              getMinLogLevel(LOG_LEVEL, order, enabledNamespacesMap) = trace

\* the wildcard is on the namespace scanned last, after one with a level
C9_Witness ==
    /\ built
    /\ NoOverride
    /\ namespaces = <<api, db, app>>
    /\ enabledNamespacesMap[api] = {error}
    /\ enabledNamespacesMap[app] = {Star}
    /\ minLogLevel = trace

\* the engine's scale, from the most urgent to the most verbose severity
Verbosity(severity) ==
    CASE severity = fatal -> 1
      [] severity = error -> 2
      [] severity = warn  -> 3
      [] severity = info  -> 4
      [] severity = debug -> 5
      [] severity = trace -> 6

MostVerboseOf(severities) ==
    CHOOSE s \in severities : \A t \in severities : Verbosity(t) <= Verbosity(s)

\* the severities of all enabled levels, an unmapped level counting as info
EnabledSeverities ==
    { IF l \in EngineSeverities THEN l ELSE info :
        l \in UNION {enabledNamespacesMap[n] : n \in DeclaredNamespaces} }

NoWildcard == \A n \in DeclaredNamespaces : Star \notin enabledNamespacesMap[n]

\* C10 as stated: without wildcard and override the result is the most
\* verbose severity among those of the enabled levels, info only when
\* nothing is enabled.
C10_MostVerboseOfEnabled ==
    (built /\ NoOverride /\ NoWildcard)
    => minLogLevel = IF EnabledSeverities = {} THEN info
                     ELSE MostVerboseOf(EnabledSeverities)

\* C10 amended: without wildcard and override the result is the most verbose
\* severity among "info" and the severities of the enabled levels, so levels
\* mapped to fatal, error or warn leave it at "info".
C10_MostVerboseOfEnabledAndInfo ==
    (built /\ NoOverride /\ NoWildcard)
    => minLogLevel = MostVerboseOf(EnabledSeverities \cup {info})

\* only error is enabled and the result is info
C10_Witness ==
    /\ built
    /\ NoOverride
    /\ NoWildcard
    /\ EnabledSeverities = {error}
    /\ minLogLevel = info

\* the severity a log function of the level emits at: the level itself when
\* it is one of the engine's six, info otherwise
SeverityOf(level) == IF level \in EngineSeverities THEN level ELSE info

\* C11: with LOG_LEVEL unset or unrecognised and no caller override, every
\* declared pair the table enables is emitted at a severity at least as
\* urgent as the threshold getMinLogLevel computed, so the engine configured
\* with that threshold lets it through.
C11_ThresholdNeverMasksTable ==
    (built /\ NoOverride) =>
        \A n \in DeclaredNamespaces, l \in DeclaredLevels :
            isEnabled(enabledNamespacesMap, n, l)
            => /\ Verbosity(SeverityOf(l)) <= Verbosity(minLogLevel)
               /\ baseLogger = [kind |-> "pino", level |-> minLogLevel]
               /\ isLevelEnabled(baseLogger, SeverityOf(l))

\* debug is enabled by name, not by the wildcard, and the threshold is debug
C11_Witness ==
    /\ built
    /\ NoOverride
    /\ NoWildcard
    /\ \E n \in DeclaredNamespaces : isEnabled(enabledNamespacesMap, n, debug)
    /\ debug \in DeclaredLevels
    /\ minLogLevel = debug

\* the threshold the table alone asks for: trace under a wildcard, otherwise
\* the most verbose of info and the severities of the enabled levels
TableThreshold ==
    IF NoWildcard THEN MostVerboseOf(EnabledSeverities \cup {info}) ELSE trace

\* C12 as stated: whenever LOG_LEVEL is a recognised severity the engine the
\* factory builds gets exactly that threshold, whatever DEBUG holds, and the
\* table-derived threshold otherwise.
C12_OverrideAlwaysReachesEngine ==
    [][(~built /\ built' /\ baseLogger'.kind = "pino")
       => baseLogger'.level = IF NoOverride THEN TableThreshold' ELSE LOG_LEVEL[1]
      ]_vars

\* C12 amended: getMinLogLevel returns LOG_LEVEL when it is a recognised
\* severity, whatever DEBUG holds, and the table-derived threshold otherwise;
\* the engine the factory builds gets that value when the caller passes no
\* level option, and the caller's level option when there is one.
C12_OverrideWinsOverTable ==
    [][\A d \in Declarations, o \in OptionValues :
           helloInnit(d.namespaces, d.levels, o)
           => /\ minLogLevel' = IF NoOverride THEN TableThreshold'
                                ELSE LOG_LEVEL[1]
              /\ o.logger = "none"
                 => baseLogger' =
                        [kind  |-> "pino",
                         level |-> IF o.level = Undefined THEN minLogLevel'
                                   ELSE o.level[1]]
      ]_vars

\* LOG_LEVEL=error with DEBUG=*: the wildcard asks for trace and the engine
\* gets error
C12_Witness ==
    /\ built
    /\ DEBUG = <<Star>>
    /\ LOG_LEVEL = <<error>>
    /\ \A n \in DeclaredNamespaces : enabledNamespacesMap[n] = {Star}
    /\ minLogLevel = error
    /\ baseLogger = [kind |-> "pino", level |-> error]

\* no namespace has anything enabled, as after an empty DEBUG
EmptyTable == \A n \in DeclaredNamespaces : enabledNamespacesMap[n] = {}

\* C13: reading hello[ns][lvl].enabled gives true exactly when isEnabled is
\* true for the pair or the engine gate allows the mapped severity, which is
\* what a call at that moment decides; with a gate that denies everything it
\* is the table's answer, and with nothing enabled by DEBUG it is the gate's:
\* under a gate at error, error reads true and info and debug read false.
C13_EnabledAgreesWithCall ==
    last.op = "get" =>
        /\ last.value
               <=> (\/ isEnabled(enabledNamespacesMap, last.namespace, last.level)
                    \/ isLevelEnabled(baseLogger, SeverityOf(last.level)))
        /\ last.value
               <=> ShouldLog(enabledNamespacesMap, baseLogger,
                             last.namespace, last.level)
        /\ baseLogger.kind = "denyAll"
           => (last.value
                   <=> isEnabled(enabledNamespacesMap, last.namespace, last.level))
        /\ EmptyTable
           => /\ last.value <=> isLevelEnabled(baseLogger, SeverityOf(last.level))
              /\ ( \/ baseLogger = [kind |-> "pino", level |-> error]
                   \/ baseLogger.kind = "errorAndFatal" )
                 => /\ last.level = error => last.value
                    /\ last.level \in {info, debug} => ~last.value

\* DEBUG enabled nothing and the gate of the LOG_LEVEL test lets error
\* through: error.enabled reads true
C13_Witness ==
    /\ last.op = "get"
    /\ EmptyTable
    /\ baseLogger.kind = "errorAndFatal"
    /\ last.level = error
    /\ last.value

\* C14: a forwarded call on (namespace, level) makes exactly one engine emit
\* call, on the logger scoped to that namespace and level, and the method is
\* the level's mapped severity: the level itself when it is one of the six
\* engine severities, info otherwise.
C14_OneEmitAtMappedSeverity ==
    (last.op = "call" /\ last.emitted # <<>>) =>
        /\ Len(last.emitted) = 1
        /\ last.emitted[1].namespace = last.namespace
        /\ last.emitted[1].environment = last.level
        /\ last.emitted[1].method
               = IF last.level \in {fatal, error, warn, info, debug, trace}
                 THEN last.level ELSE info

\* a call on debug goes out through the engine's debug method
C14_Witness ==
    /\ last.op = "call"
    /\ last.level = debug
    /\ Len(last.emitted) = 1
    /\ last.emitted[1].method = debug

\* C15: once helloInnit has returned, no change of DEBUG or LOG_LEVEL, no log
\* call and no read or write of enabled changes the table, the computed
\* threshold or the engine logger of the matrix, so isEnabled, a function of
\* the table, answers as it did at construction.
C15_SnapshotAtConstruction ==
    [][built => UNCHANGED <<built, namespaces, levels, enabledNamespacesMap,
                            minLogLevel, baseLogger>>]_vars

\* DEBUG and LOG_LEVEL were changed after construction and enabled was read:
\* the matrix still has the table and threshold of the old environment, not
\* those a matrix constructed now would get
C15_Witness ==
    /\ built
    /\ last.op = "get"
    /\ enabledNamespacesMap # parseDebugEnvVar(DEBUG, namespaces, levels)
    /\ minLogLevel
           # getMinLogLevel(LOG_LEVEL, namespaces,
                            parseDebugEnvVar(DEBUG, namespaces, levels))
    /\ EmptyTable
    /\ DEBUG = <<Star>>
    /\ LOG_LEVEL = <<debug>>

\* C16: whatever DEBUG holds (empty and blank segments, unknown namespaces
\* and levels, a lone "-" or ":", repeated colons) and whatever lists are
\* declared, the table built has an entry for every declared namespace and
\* for nothing else, every entry holds declared levels or the wildcard only,
\* and isEnabled answers true or false for any namespace and level, declared
\* or not. No step of parseDebugEnvVar or isEnabled reads a property of an
\* absent entry: every operator above is applied inside its domain.
C16_PermissiveDegradation ==
    built =>
        /\ DOMAIN enabledNamespacesMap = DeclaredNamespaces
        /\ \A n \in DeclaredNamespaces :
               enabledNamespacesMap[n] \subseteq DeclaredLevels \cup {Star}
        /\ \A n \in AllNames \cup {ghost, EmptyStr} :
               \A l \in AllLevels \cup {bogus, Star, EmptyStr} :
                   isEnabled(enabledNamespacesMap, n, l) \in BOOLEAN

\* DEBUG is "-,:": a lone dash and a lone colon; the table has its three
\* entries and nothing is enabled
C16_Witness ==
    /\ built
    /\ RawSpec = Join(<<Minus(EmptyStr), Colon(EmptyStr, EmptyStr)>>, ",")
    /\ DOMAIN enabledNamespacesMap = {app, api, db}
    /\ EmptyTable
    /\ ~isEnabled(enabledNamespacesMap, ghost, bogus)

\* C17: a unit made of a namespace token, a colon and an empty level, such as
\* "app:" or "*:", is ignored: the table is the one the same DEBUG value gives
\* without that unit, and a DEBUG value made of such a unit alone enables
\* nothing.
C17_EmptyLevelIgnored ==
    built =>
        \A i \in 1..Len(Units) :
            (\E n \in DeclaredNamespaces \cup {Star} :
                 UnitAt(i) = Colon(n, EmptyStr))
            => /\ enabledNamespacesMap = TableOf(RemoveAt(Units, i))
               /\ Len(Units) = 1 => EmptyTable

\* the namespaces and levels a caller may ask isEnabled about
QueriedNamespaces == AllNames \cup {ghost}

QueriedLevels == AllLevels \cup {bogus}

\* C18 as stated: with zero namespaces or zero levels declared, whatever
\* DEBUG holds, the table enables nothing and isEnabled is false for every
\* namespace and level.
C18_NothingDeclaredNothingEnabled ==
    (built /\ (namespaces = <<>> \/ levels = <<>>)) =>
        /\ EmptyTable
        /\ \A n \in QueriedNamespaces, l \in QueriedLevels :
               ~isEnabled(enabledNamespacesMap, n, l)

\* C18 amended: with zero namespaces the table has no entry and isEnabled is
\* false for every namespace and level; with zero levels and some namespaces
\* every declared namespace has an entry that is empty or holds the wildcard
\* alone, and isEnabled is true exactly for the namespaces whose entry holds
\* the wildcard, at every level.
C18_NoNamespacesNothingEnabled ==
    built =>
        /\ namespaces = <<>>
           => /\ DOMAIN enabledNamespacesMap = {}
              /\ \A n \in QueriedNamespaces, l \in QueriedLevels :
                     ~isEnabled(enabledNamespacesMap, n, l)
        /\ levels = <<>>
           => /\ DOMAIN enabledNamespacesMap = DeclaredNamespaces
              /\ \A n \in DeclaredNamespaces :
                     enabledNamespacesMap[n] \in {{}, {Star}}
              /\ \A n \in QueriedNamespaces, l \in QueriedLevels :
                     isEnabled(enabledNamespacesMap, n, l)
                         <=> /\ n \in DeclaredNamespaces
                             /\ enabledNamespacesMap[n] = {Star}

\* no level is declared, DEBUG is "*", and isEnabled says yes for app at info
C18_Witness ==
    /\ built
    /\ levels = <<>>
    /\ namespaces = <<app, api>>
    /\ DEBUG = <<Star>>
    /\ enabledNamespacesMap[app] = {Star}
    /\ isEnabled(enabledNamespacesMap, app, info)

\* C19: createDebugPatterns(namespaces, levels) is the comma-joined list of
\* one "namespace:level" token for every pair, all namespaces in their order
\* for the first level, then for the next; no separator leads, trails or
\* follows another; ([app, api], [info, error]) gives
\* "app:info,api:info,app:error,api:error".
C19_LevelMajorPatterns ==
    last.op = "createDebugPatterns" =>
        LET nss    == last.namespaces
            lvls   == last.environments
            r      == last.result
            width  == Len(nss)
            tokens == Split(r, ",")
        IN  /\ width * Len(lvls) = 0 => r = EmptyStr
            /\ width * Len(lvls) > 0
               => /\ Len(tokens) = width * Len(lvls)
                  /\ \A j \in 1..Len(lvls), i \in 1..width :
                         tokens[(j - 1) * width + i] = nss[i] \o <<":">> \o lvls[j]
            /\ r # EmptyStr
               => /\ r[1] # ","
                  /\ r[Len(r)] # ","
                  /\ \A k \in 1..(Len(r) - 1) : ~(r[k] = "," /\ r[k + 1] = ",")
            /\ (nss = <<app, api>> /\ lvls = <<info, error>>)
               => r = <<"app", ":", "info", ",", "api", ":", "info", ",",
                        "app", ":", "error", ",", "api", ":", "error">>

\* the call of the test: ([app, api], [info, error])
C19_Witness ==
    /\ last.op = "createDebugPatterns"
    /\ last.namespaces = <<app, api>>
    /\ last.environments = <<info, error>>
    /\ last.result = <<"app", ":", "info", ",", "api", ":", "info", ",",
                       "app", ":", "error", ",", "api", ":", "error">>

\* the text of a unit after its first colon
RECURSIVE AfterFirstColon(_)
AfterFirstColon(unit) ==
    IF unit = <<>> THEN <<>>
    ELSE IF Head(unit) = ":" THEN Tail(unit)
    ELSE AfterFirstColon(Tail(unit))

\* C20: an inclusion is split on its first colon only and its level token is
\* all that follows, so a unit with more than one colon, such as
\* "app:info:x", has a level token that holds a colon ("info:x"), which is no
\* declared level: the unit is ignored and the table is the one the same
\* DEBUG value gives without it.
C20_SplitOnFirstColonOnly ==
    built =>
        \A i \in 1..Len(Units) :
            ( /\ Len(Split(UnitAt(i), ":")) > 2
              /\ ~StartsWithDash(UnitAt(i))
              /\ AfterFirstColon(UnitAt(i)) \notin DeclaredLevels \cup {Star} )
            => enabledNamespacesMap = TableOf(RemoveAt(Units, i))

\* the unit is an exclusion of namespace n with a level qualifier
ExcludesWithLevel(unit, n) ==
    /\ StartsWithDash(unit)
    /\ Len(Split(Substring1(unit), ":")) >= 2
    /\ Split(Substring1(unit), ":")[1] = n

\* C21: -<namespace>:<level> with a declared namespace acts as -<namespace>,
\* whether the level is declared or not (no level is declared when levels is
\* empty): the table is the one the same DEBUG
\* value gives with -<namespace> in its place, the namespace's set is empty
\* and every level of it disabled, and every other namespace has the set the
\* DEBUG value without the unit gives it.
C21_LevelOnExclusionIgnored ==
    built =>
        \A n \in DeclaredNamespaces :
            \A i \in 1..Len(Units) :
                ExcludesWithLevel(UnitAt(i), n)
                => /\ enabledNamespacesMap
                          = TableOf([Units EXCEPT ![i] = Minus(n)])
                   /\ enabledNamespacesMap[n] = {}
                   /\ \A l \in DeclaredLevels \cup {bogus} :
                          ~isEnabled(enabledNamespacesMap, n, l)
                   /\ \A m \in DeclaredNamespaces \ {n} :
                          enabledNamespacesMap[m] = TableOf(RemoveAt(Units, i))[m]

\* "*,-app:info": error of app is disabled with info, api keeps the wildcard
C21_Witness ==
    /\ built
    /\ namespaces = <<app, api>>
    /\ levels = <<info, error>>
    /\ RawSpec = Join(<<Star, Minus(Colon(app, info))>>, ",")
    /\ enabledNamespacesMap[app] = {}
    /\ ~isEnabled(enabledNamespacesMap, app, error)
    /\ enabledNamespacesMap[api] = {Star}

\* C22: an assignment to hello[ns][lvl].enabled changes nothing of the
\* matrix, which is all that a read of enabled and a call depend on: the
\* value read from enabled of the pair after it is the value read before it,
\* and a call of that or of another namespace's log function is forwarded
\* after it exactly when it was before it.
C22_SetterChangesNothing ==
    [][(last'.op = "set" /\ last' # last)
       => /\ UNCHANGED <<built, namespaces, levels, enabledNamespacesMap,
                         minLogLevel, baseLogger>>
          /\ EnabledGetter(enabledNamespacesMap', baseLogger',
                           last'.namespace, last'.level)
                 <=> EnabledGetter(enabledNamespacesMap, baseLogger,
                                   last'.namespace, last'.level)
          /\ \A n \in DeclaredNamespaces :
                 ShouldLog(enabledNamespacesMap', baseLogger', n, last'.level)
                     <=> ShouldLog(enabledNamespacesMap, baseLogger, n,
                                   last'.level)
      ]_vars

\* enabled of (app, info) has been assigned and still reads false: neither
\* the table nor the engine gate allows the pair
C22_Witness ==
    /\ last.op = "set"
    /\ last.namespace = app
    /\ last.level = info
    /\ ~EnabledGetter(enabledNamespacesMap, baseLogger, app, info)
    /\ ~ShouldLog(enabledNamespacesMap, baseLogger, app, info)

\* the tables the inclusions among the units give when each stands alone
RECURSIVE TablesOfInclusions(_)
TablesOfInclusions(units) ==
    IF units = <<>> THEN <<>>
    ELSE IF Trim(Head(units)) = EmptyStr \/ StartsWithDash(Trim(Head(units)))
    THEN TablesOfInclusions(Tail(units))
    ELSE <<TableOf(<<Head(units)>>)>> \o TablesOfInclusions(Tail(units))

\* the namespaces the exclusions among the units name
RECURSIVE NamedByExclusions(_)
NamedByExclusions(units) ==
    IF units = <<>> THEN {}
    ELSE IF StartsWithDash(Trim(Head(units)))
    THEN {Split(Tail(Trim(Head(units))), ":")[1]} \cup NamedByExclusions(Tail(units))
    ELSE NamedByExclusions(Tail(units))

\* the tables of all permutations of the units
PermutedTables(units) == {TableOf(order) : order \in Orders(units)}

\* C23: the answers of isEnabled do not depend on the order of the units of
\* DEBUG: every permutation of them gives the same answer for every declared
\* namespace and level, although the stored sets may differ; a pair is
\* enabled exactly when no exclusion names its namespace and some inclusion
\* gives the namespace the wildcard or the level.
C23_OrderIndependentAnswers ==
    built =>
        /\ \A permuted \in PermutedTables(Units) :
               \A n \in DeclaredNamespaces, l \in DeclaredLevels :
                   isEnabled(permuted, n, l)
                       <=> isEnabled(enabledNamespacesMap, n, l)
        /\ \A granted \in {TablesOfInclusions(Units)} :
           \A excluded \in {NamedByExclusions(Units)} :
               \A n \in DeclaredNamespaces, l \in DeclaredLevels :
                   isEnabled(enabledNamespacesMap, n, l)
                       <=> /\ n \notin excluded
                           /\ \E j \in 1..Len(granted) :
                                  isEnabled(granted[j], n, l)

\* "app,app:info" stores the wildcard and info for app, "app:info,app" the
\* wildcard alone, and both enable every level of app
C23_Witness ==
    /\ built
    /\ namespaces = <<app, api>>
    /\ RawSpec = Join(<<app, Colon(app, info)>>, ",")
    /\ enabledNamespacesMap[app] = {Star, info}
    /\ TableOf(<<Colon(app, info), app>>)[app] = {Star}
    /\ isEnabled(enabledNamespacesMap, app, error)
    /\ isEnabled(TableOf(<<Colon(app, info), app>>), app, error)

\* the threshold of the matrix is the one computed from its table, as it is
\* when LOG_LEVEL was unset or unrecognised at construction
ThresholdFromTable == built /\ minLogLevel = TableThreshold

C25_RoundTripEnablesAll ==
    (built /\ DEBUG = <<createDebugPatterns(namespaces, levels)>>) =>
        \A n \in DeclaredNamespaces, l \in DeclaredLevels :
            /\ isEnabled(enabledNamespacesMap, n, l)
            /\ isEnabled(TableOf(<<Star>>), n, l)
            /\ l \in enabledNamespacesMap[n]

\* two namespaces and two levels, one of them unmapped: every set holds both
\* levels and no wildcard
C25_Witness ==
    /\ built
    /\ namespaces = <<db, app>>
    /\ levels = <<verbose, error>>
    /\ RawSpec = <<"db", ":", "verbose", ",", "app", ":", "verbose", ",",
                   "db", ":", "error", ",", "app", ":", "error">>
    /\ enabledNamespacesMap = [n \in {db, app} |-> {verbose, error}]
    /\ isEnabled(enabledNamespacesMap, app, verbose)

====
